---- MODULE Spec2Model ----
(***************************************************************************)
(* Segmented concurrent downloader of src/app.py: class ChunkDownloader    *)
(* (get_file_size, download_chunk, download), run by a ThreadPoolExecutor. *)
(* One download job is modelled from construction to return or raise.      *)
(***************************************************************************)
EXTENDS Integers, Sequences, FiniteSets, TLC

\* ------------------------------------------------------------------ bounds
MaxTotal == 3          \* largest content-length the server announces
MaxChunkSize == 2      \* largest configured chunk_size
MaxWorkers == 2        \* largest configured max_workers
MaxRetries == 1        \* largest configured retries

VARIABLES
    job,            \* main: the resource being downloaded, "video" then "audio"
    video,          \* main: how the video download ended, and its threads left
    chunk_size,     \* self.chunk_size
    max_workers,    \* self.max_workers
    retries,        \* self.retries
    accept_ranges,  \* environment: whether the server honours Range for this url
    head_resp,      \* the response to the HEAD request of get_file_size
    total_size,     \* download: total_size
    chunks,         \* download: chunks, a sequence of <<start, end>>
    futures,        \* download: futures, keyed by chunk index 0..n-1
    work_queue,     \* executor: submitted work items no thread has taken
    submitted,      \* download: how many chunks the submit loop has submitted
    yielded,        \* chunk indexes as_completed has handed to the loop
    accepted,       \* chunk indexes whose payload was written and counted
    temp_exists,    \* whether temp_dir exists
    temp_dir,       \* the files of temp_dir: name -> bytes
    pbar,           \* tqdm progress counter (pbar.n)
    final_file,     \* the file at output_path: [exists, bytes]
    merge_idx,      \* download: idx of the merge loop
    exc,            \* the exception the coordinator is handling or propagating
    raised,         \* the exceptions download has raised to its caller
    pc,             \* position of the thread running download
    get_calls,      \* history: number of ranged GETs issued (download_chunk calls)
    history,        \* history: per chunk, the outcome of each attempt made
    out_of_order,   \* history: a chunk was persisted before a lower index
    late_result     \* history: chunks fetched after a chunk failure was received

vars == <<job, video, chunk_size, max_workers, retries, accept_ranges, head_resp,
          total_size, chunks, futures, work_queue, submitted, yielded, accepted,
          temp_exists, temp_dir, pbar, final_file, merge_idx, exc, raised, pc,
          get_calls, history, out_of_order, late_result>>

\* ------------------------------------------------------------------ helpers
Digit == <<"0", "1", "2", "3", "4", "5", "6", "7", "8", "9">>

DigitVal(c) == (CHOOSE k \in 1..10 : Digit[k] = c) - 1

IsDigit(c) == \E k \in 1..10 : Digit[k] = c

RECURSIVE Decimal(_)
\* str(n) for n >= 0
Decimal(n) == IF n < 10 THEN <<Digit[n + 1]>>
              ELSE Decimal(n \div 10) \o <<Digit[(n % 10) + 1]>>

RECURSIVE DigitsValue(_)
DigitsValue(s) == IF s = <<>> THEN 0
                  ELSE 10 * DigitsValue(SubSeq(s, 1, Len(s) - 1)) + DigitVal(s[Len(s)])

\* int(text) of a header value: [ok |-> FALSE] stands for ValueError
PyInt(s) ==
    LET neg == s # <<>> /\ s[1] = "-"
        d   == IF neg THEN Tail(s) ELSE s
    IN  IF d = <<>> \/ \E k \in 1..Len(d) : ~IsDigit(d[k])
        THEN [ok |-> FALSE, value |-> 0]
        ELSE [ok |-> TRUE, value |-> IF neg THEN 0 - DigitsValue(d) ELSE DigitsValue(d)]

RECURSIVE PyRange(_, _, _)
\* list(range(i, stop, step)) for step > 0
PyRange(i, stop, step) == IF i < stop THEN <<i>> \o PyRange(i + step, stop, step)
                          ELSE <<>>

\* the bytes [start, end] of the remote resource; the byte at offset o is o
ResourceBytes(start, end) == [k \in 1..(end - start + 1) |-> start + k - 1]

\* ------------------------------------------------------------------ errors
NoExc == [kind |-> "none", range |-> <<>>]
SizeError == [kind |-> "size", range |-> <<>>]         \* "无法获取有效文件大小"
IndexError == [kind |-> "index", range |-> <<>>]       \* chunks[-1] of an empty list
OSError == [kind |-> "os", range |-> <<>>]             \* a storage error
ChunkError(start, end) == [kind |-> "chunk", range |-> <<start, end>>]

\* ------------------------------------------------------------------ get_file_size
HeaderValues == {Decimal(n) : n \in 0..MaxTotal} \cup {<<"-", "1">>, <<"x">>}

HeadResponses ==
    [error : {TRUE}, status : {0}, has_length : {FALSE}, length : {<<>>}]
    \cup [error : {FALSE}, status : {200, 206, 403},
          has_length : {TRUE}, length : HeaderValues]
    \cup [error : {FALSE}, status : {200, 403}, has_length : {FALSE}, length : {<<>>}]

get_file_size_anystatus(resp) ==
    IF resp.error THEN 0
    ELSE IF ~resp.has_length THEN 0
    ELSE IF PyInt(resp.length).ok THEN PyInt(resp.length).value ELSE 0

get_file_size(resp) ==
    IF resp.error THEN 0
    ELSE IF resp.status = 200
         THEN IF ~resp.has_length THEN 0
              ELSE IF PyInt(resp.length).ok THEN PyInt(resp.length).value ELSE 0
         ELSE 0

\* ------------------------------------------------------------------ planning
\* line 114 alone, without the correction of the last chunk
PlanChunks_nofix(total, size) ==
    LET starts == PyRange(0, total, size)
    IN  [k \in 1..Len(starts) |-> <<starts[k], starts[k] + size - 1>>]

\* line 114 with the last chunk corrected one byte too far
PlanChunks_offbyone(total, size) ==
    LET starts == PyRange(0, total, size)
        raw == [k \in 1..Len(starts) |-> <<starts[k], starts[k] + size - 1>>]
    IN  [k \in 1..Len(raw) |-> IF k = Len(raw) THEN <<raw[k][1], total>> ELSE raw[k]]

\* lines 114-115; called with a non-empty range only
PlanChunks(total, size) ==
    LET starts == PyRange(0, total, size)
        raw == [k \in 1..Len(starts) |-> <<starts[k], starts[k] + size - 1>>]
    IN  [k \in 1..Len(raw) |-> IF k = Len(raw) THEN <<raw[k][1], total - 1>> ELSE raw[k]]

\* ------------------------------------------------------------------ download_chunk
\* what the server may answer to a GET with Range: bytes=start-end: the range
\* with 206 when it honours Range, the whole resource with 200 when it does not,
\* a refusal, or no answer (timeout, connection error)
GetResponses(start, end) ==
    { IF accept_ranges
      THEN [error |-> FALSE, stalled |-> FALSE, status |-> 206,
            content |-> ResourceBytes(start, end)]
      ELSE [error |-> FALSE, stalled |-> FALSE, status |-> 200,
            content |-> ResourceBytes(0, total_size - 1)],
      [error |-> FALSE, stalled |-> FALSE, status |-> 403, content |-> <<>>],
      [error |-> TRUE, stalled |-> FALSE, status |-> 0, content |-> <<>>],
      [error |-> FALSE, stalled |-> TRUE, status |-> 0, content |-> <<>>] }

\* session.get without a timeout: a stalled request never returns
session_get_notimeout(resp) == resp

\* lines 93-98: session.get(..., timeout=30) turns a stalled request into a
\* transport error
session_get(resp) ==
    IF resp.stalled
    THEN [error |-> TRUE, stalled |-> FALSE, status |-> 0, content |-> <<>>]
    ELSE resp

\* line 90: headers["Range"] = f"bytes={start}-{end}", as the pair it names
RangeHeader(start, end) == <<start, end>>

\* the status test of line 100: the response is returned as (start, resp.content)
Accepted(resp) == ~resp.error /\ ~resp.stalled /\ resp.status \in {200, 206}

\* the retry test one too strict: the last allowed attempt is not made
download_chunk_strict(start, end, retry, resp) ==
    IF Accepted(resp)
    THEN [kind |-> "return", data |-> resp.content, start |-> start, end |-> end,
          retry |-> retry, exception |-> NoExc]
    ELSE IF retry + 1 < retries
         THEN [kind |-> "recurse", data |-> <<>>, start |-> start, end |-> end,
               retry |-> retry + 1, exception |-> NoExc]
         ELSE [kind |-> "raise", data |-> <<>>, start |-> start, end |-> end,
               retry |-> retry,
               exception |-> ChunkError(start, end)]

\* the terminal error names the nominal range start..start+chunk_size-1
download_chunk_nominal(start, end, retry, resp) ==
    IF Accepted(resp)
    THEN [kind |-> "return", data |-> resp.content, start |-> start, end |-> end,
          retry |-> retry, exception |-> NoExc]
    ELSE IF retry < retries
         THEN [kind |-> "recurse", data |-> <<>>, start |-> start, end |-> end,
               retry |-> retry + 1, exception |-> NoExc]
         ELSE [kind |-> "raise", data |-> <<>>, start |-> start, end |-> end,
               retry |-> retry,
               exception |-> ChunkError(start, start + chunk_size - 1)]

\* the retry test one too lax: one attempt more than retries + 1 is made
download_chunk_extra(start, end, retry, resp) ==
    IF Accepted(resp)
    THEN [kind |-> "return", data |-> resp.content, start |-> start, end |-> end,
          retry |-> retry, exception |-> NoExc]
    ELSE IF retry <= retries
         THEN [kind |-> "recurse", data |-> <<>>, start |-> start, end |-> end,
               retry |-> retry + 1, exception |-> NoExc]
         ELSE [kind |-> "raise", data |-> <<>>, start |-> start, end |-> end,
               retry |-> retry, exception |-> ChunkError(start, end)]

\* one attempt of download_chunk(session, start, end, retry) given the response;
\* "recurse" is the call self.download_chunk(session, start, end, retry + 1)
download_chunk(start, end, retry, resp) ==
    IF Accepted(resp)
    THEN [kind |-> "return", data |-> resp.content, start |-> start, end |-> end,
          retry |-> retry, exception |-> NoExc]
    ELSE IF retry < retries
         THEN [kind |-> "recurse", data |-> <<>>, start |-> start, end |-> end,
               retry |-> retry + 1, exception |-> NoExc]
         ELSE [kind |-> "raise", data |-> <<>>, start |-> start, end |-> end,
               retry |-> retry,
               exception |-> ChunkError(start, end)]

\* ------------------------------------------------------------------ storage
\* f"{idx:04d}"
Fmt04d(idx) ==
    LET d == Decimal(idx)
    IN  IF Len(d) >= 4 THEN d ELSE [k \in 1..(4 - Len(d)) |-> "0"] \o d

\* the name of chunk idx in temp_dir: f"chunk_{idx:04d}.dat"
ChunkPath(idx) == <<"chunk_">> \o Fmt04d(idx) \o <<".dat">>

WriteFile(dir, name, data) == (name :> data) @@ dir

\* a merge loop without os.remove: the file stays in the directory
RemoveFile_keep(dir, name) == dir

\* line 151: os.remove(chunk_path)
RemoveFile(dir, name) == [n \in (DOMAIN dir) \ {name} |-> dir[n]]

\* the chunk file named by the number of chunks already written, not by idx
Persist_arrival(dir, idx, data) == WriteFile(dir, ChunkPath(Cardinality(accepted)), data)

\* lines 136-138
Persist(dir, idx, data) == WriteFile(dir, ChunkPath(idx), data)

\* ------------------------------------------------------------------ state
Indexes == 0..(Len(chunks) - 1)

Chunk(idx) == chunks[idx + 1]

Running == {i \in DOMAIN futures : futures[i].state \in {"running", "blocked"}}

NoResponse == [error |-> FALSE, status |-> 0, has_length |-> FALSE, length |-> <<>>]

NewFuture(start, end) ==
    [state |-> "pending", start |-> start, end |-> end, retry |-> 0,
     data |-> <<>>, exception |-> NoExc]

\* main: the video download has not ended yet
NoVideo == [result |-> "none", running |-> 0]

Init ==
    /\ job = "video"
    /\ video = NoVideo
    /\ chunk_size \in 1..MaxChunkSize
    /\ max_workers \in 1..MaxWorkers
    /\ retries \in 0..MaxRetries
    /\ accept_ranges \in BOOLEAN
    /\ head_resp = NoResponse
    /\ total_size = 0
    /\ chunks = <<>>
    /\ futures = <<>>
    /\ work_queue = <<>>
    /\ submitted = 0
    /\ yielded = {}
    /\ accepted = {}
    /\ temp_exists = FALSE
    /\ temp_dir = <<>>
    /\ pbar = 0
    /\ final_file = [exists |-> FALSE, bytes |-> <<>>]
    /\ merge_idx = 0
    /\ exc = NoExc
    /\ raised = <<>>
    /\ pc = "probe"
    /\ get_calls = 0
    /\ history = <<>>
    /\ out_of_order = FALSE
    /\ late_result = {}

\* ------------------------------------------------------------------ download
\* lines 110-112: total_size = self.get_file_size(); raise when it is 0
Probe ==
    /\ pc = "probe"
    /\ \E resp \in HeadResponses :
        /\ head_resp' = resp
        /\ total_size' = get_file_size(resp)
    /\ IF total_size' = 0
       THEN pc' = "failed" /\ raised' = Append(raised, SizeError)
       ELSE pc' = "plan" /\ raised' = raised
    /\ UNCHANGED <<late_result, job, video, chunk_size, max_workers, retries,
                   accept_ranges, chunks, futures, work_queue,
                   submitted, yielded, accepted, temp_exists, temp_dir, pbar,
                   final_file, merge_idx, exc, get_calls, history, out_of_order>>

\* lines 114-118: the chunk list, then os.makedirs(temp_dir, exist_ok=True)
Plan ==
    /\ pc = "plan"
    /\ IF PyRange(0, total_size, chunk_size) = <<>>
       THEN /\ pc' = "failed"
            /\ raised' = Append(raised, IndexError)
            /\ UNCHANGED <<chunks, temp_exists, history>>
       ELSE /\ chunks' = PlanChunks(total_size, chunk_size)
            /\ temp_exists' = TRUE
            /\ history' = [i \in 0..(Len(chunks') - 1) |-> <<>>]
            /\ pc' = "submit"
            /\ raised' = raised
    /\ UNCHANGED <<late_result, job, video, chunk_size, max_workers, retries,
                   accept_ranges, head_resp, total_size, futures,
                   work_queue, submitted, yielded, accepted, temp_dir, pbar,
                   final_file, merge_idx, exc, get_calls, out_of_order>>

\* lines 126-130: one iteration of the submit loop
Submit ==
    /\ pc = "submit"
    /\ futures' = [i \in 0..submitted |-> IF i = submitted
                                         THEN NewFuture(Chunk(i)[1], Chunk(i)[2])
                                         ELSE futures[i]]
    /\ work_queue' = Append(work_queue, submitted)
    /\ submitted' = submitted + 1
    /\ pc' = IF submitted + 1 = Len(chunks) THEN "collect" ELSE "submit"
    /\ UNCHANGED <<late_result, job, video, chunk_size, max_workers, retries,
                   accept_ranges, head_resp, total_size, chunks,
                   yielded, accepted, temp_exists, temp_dir, pbar, final_file,
                   merge_idx, exc, raised, get_calls, history, out_of_order>>

\* a pool thread may take a work item: there are at most max_workers threads
ThreadFree_unbounded == TRUE

ThreadFree == Cardinality(Running) < max_workers

\* ThreadPoolExecutor(max_workers): a free thread takes the oldest work item
StartWork ==
    /\ work_queue # <<>>
    /\ ThreadFree
    /\ futures' = [futures EXCEPT ![Head(work_queue)].state = "running"]
    /\ work_queue' = Tail(work_queue)
    /\ UNCHANGED <<late_result, job, video, chunk_size, max_workers, retries,
                   accept_ranges, head_resp, total_size, chunks,
                   submitted, yielded, accepted, temp_exists, temp_dir, pbar,
                   final_file, merge_idx, exc, raised, pc, get_calls, history,
                   out_of_order>>

\* lines 87-106: one attempt of download_chunk for chunk i, in a pool thread
Attempt(i) ==
    /\ futures[i].state = "running"
    /\ LET f == futures[i]
           hdr == RangeHeader(f.start, f.end)
       IN  \E resp \in GetResponses(hdr[1], hdr[2]) :
            LET got == session_get(resp)
                r == download_chunk(f.start, f.end, f.retry, got)
            IN  IF got.stalled
                THEN /\ futures' = [futures EXCEPT ![i].state = "blocked"]
                     /\ history' = history
                     /\ late_result' = late_result
                ELSE /\ futures' = [futures EXCEPT ![i] =
                          [state |-> IF r.kind = "recurse" THEN "running" ELSE "finished",
                           start |-> r.start, end |-> r.end, retry |-> r.retry,
                           data |-> r.data, exception |-> r.exception]]
                     /\ history' = [history EXCEPT ![i] =
                          Append(@, [outcome |-> IF Accepted(got) THEN "ok" ELSE "bad",
                                     range |-> hdr])]
                     /\ late_result' = IF exc.kind = "chunk" /\ r.kind = "return"
                                        THEN late_result \cup {i} ELSE late_result
    /\ get_calls' = get_calls + 1
    /\ UNCHANGED <<job, video, chunk_size, max_workers, retries, accept_ranges, head_resp,
                   total_size, chunks, work_queue, submitted, yielded, accepted,
                   temp_exists, temp_dir, pbar, final_file, merge_idx, exc, raised,
                   pc, out_of_order>>

\* a handler that prints the failure and lets the as_completed loop go on
AcceptResult_afterfail(i) ==
    /\ pc \in {"collect", "except", "exiting"}
    /\ i \in DOMAIN futures /\ i \notin yielded
    /\ futures[i].state = "finished" /\ futures[i].exception = NoExc
    /\ yielded' = yielded \cup {i}
    /\ temp_dir' = Persist(temp_dir, i, futures[i].data)
    /\ pbar' = pbar + Len(futures[i].data)
    /\ accepted' = accepted \cup {i}
    /\ out_of_order' = (out_of_order \/ \E j \in 0..(i - 1) : j \notin accepted)
    /\ UNCHANGED <<late_result, job, video, chunk_size, max_workers, retries,
                   accept_ranges, head_resp, total_size, chunks,
                   futures, work_queue, submitted, temp_exists, final_file,
                   merge_idx, exc, raised, pc, get_calls, history>>

\* lines 132-139: as_completed yields a future that returned; write and count it
AcceptResult(i) ==
    /\ pc = "collect"
    /\ i \in DOMAIN futures /\ i \notin yielded
    /\ futures[i].state = "finished" /\ futures[i].exception = NoExc
    /\ yielded' = yielded \cup {i}
    /\ temp_dir' = Persist(temp_dir, i, futures[i].data)
    /\ pbar' = pbar + Len(futures[i].data)
    /\ accepted' = accepted \cup {i}
    /\ out_of_order' = (out_of_order \/ \E j \in 0..(i - 1) : j \notin accepted)
    /\ UNCHANGED <<late_result, job, video, chunk_size, max_workers, retries,
                   accept_ranges, head_resp, total_size, chunks,
                   futures, work_queue, submitted, temp_exists, final_file,
                   merge_idx, exc, raised, pc, get_calls, history>>

\* lines 136-140: open or write of the chunk file raises; p bytes were written
\* (p = -1: the file was not created)
PersistFault(i) ==
    /\ pc = "collect"
    /\ i \in DOMAIN futures /\ i \notin yielded
    /\ futures[i].state = "finished" /\ futures[i].exception = NoExc
    /\ yielded' = yielded \cup {i}
    /\ \E p \in (-1)..(Len(futures[i].data) - 1) :
        temp_dir' = IF p = -1 THEN temp_dir
                    ELSE Persist(temp_dir, i, SubSeq(futures[i].data, 1, p))
    /\ exc' = OSError
    /\ pc' = "except"
    /\ UNCHANGED <<late_result, job, video, chunk_size, max_workers, retries,
                   accept_ranges, head_resp, total_size, chunks,
                   futures, work_queue, submitted, accepted, temp_exists, pbar,
                   final_file, merge_idx, raised, get_calls, history, out_of_order>>

\* a loop that swallows the exception of result() and goes on to the next future
FutureFailed_continue(i) ==
    /\ pc = "collect"
    /\ i \in DOMAIN futures /\ i \notin yielded
    /\ futures[i].state = "finished" /\ futures[i].exception # NoExc
    /\ yielded' = yielded \cup {i}
    /\ UNCHANGED <<late_result, job, video, chunk_size, max_workers, retries,
                   accept_ranges, head_resp, total_size, chunks,
                   futures, work_queue, submitted, accepted, temp_exists, temp_dir,
                   pbar, final_file, merge_idx, exc, raised, pc, get_calls, history,
                   out_of_order>>

\* lines 132-135, 140: as_completed yields a future whose result() raises
FutureFailed(i) ==
    /\ pc = "collect"
    /\ i \in DOMAIN futures /\ i \notin yielded
    /\ futures[i].state = "finished" /\ futures[i].exception # NoExc
    /\ yielded' = yielded \cup {i}
    /\ exc' = futures[i].exception
    /\ pc' = "except"
    /\ UNCHANGED <<late_result, job, video, chunk_size, max_workers, retries,
                   accept_ranges, head_resp, total_size, chunks,
                   futures, work_queue, submitted, accepted, temp_exists, temp_dir,
                   pbar, final_file, merge_idx, raised, get_calls, history,
                   out_of_order>>

\* shutdown that leaves the queued work items in the queue
CancelQueued_none(fs, queue) == [futures |-> fs, work_queue |-> queue]

\* cancel_futures=True: the queue is drained, every drained item's future cancelled
CancelQueued(fs, queue) ==
    [futures |-> [i \in DOMAIN fs |->
                    IF \E k \in 1..Len(queue) : queue[k] = i
                    THEN [fs[i] EXCEPT !.state = "cancelled"] ELSE fs[i]],
     work_queue |-> <<>>]

\* lines 141-143: print, executor.shutdown(wait=False, cancel_futures=True), raise
Shutdown ==
    /\ pc = "except"
    /\ futures' = CancelQueued(futures, work_queue).futures
    /\ work_queue' = CancelQueued(futures, work_queue).work_queue
    /\ pc' = "exiting"
    /\ UNCHANGED <<late_result, job, video, chunk_size, max_workers, retries,
                   accept_ranges, head_resp, total_size, chunks,
                   submitted, yielded, accepted, temp_exists, temp_dir, pbar,
                   final_file, merge_idx, exc, raised, get_calls, history,
                   out_of_order>>

\* leaving the with block without joining the pool threads
ExecutorExit_nowait ==
    /\ pc = "exiting"
    /\ raised' = Append(raised, exc)
    /\ pc' = "failed"
    /\ UNCHANGED <<late_result, job, video, chunk_size, max_workers, retries,
                   accept_ranges, head_resp, total_size, chunks,
                   futures, work_queue, submitted, yielded, accepted, temp_exists,
                   temp_dir, pbar, final_file, merge_idx, exc, get_calls, history,
                   out_of_order>>

\* line 124, leaving the with block on the exception: shutdown(wait=True) joins
\* the pool threads, then the exception reaches the caller of download
ExecutorExit ==
    /\ pc = "exiting"
    /\ Running = {}
    /\ work_queue = <<>>
    /\ raised' = Append(raised, exc)
    /\ pc' = "failed"
    /\ UNCHANGED <<late_result, job, video, chunk_size, max_workers, retries,
                   accept_ranges, head_resp, total_size, chunks,
                   futures, work_queue, submitted, yielded, accepted, temp_exists,
                   temp_dir, pbar, final_file, merge_idx, exc, get_calls, history,
                   out_of_order>>

\* lines 122-132: as_completed is exhausted, the with blocks are left normally
CollectDone ==
    /\ pc = "collect"
    /\ yielded = Indexes
    /\ pc' = "open"
    /\ UNCHANGED <<late_result, job, video, chunk_size, max_workers, retries,
                   accept_ranges, head_resp, total_size, chunks,
                   futures, work_queue, submitted, yielded, accepted, temp_exists,
                   temp_dir, pbar, final_file, merge_idx, exc, raised, get_calls,
                   history, out_of_order>>

\* line 146: open(output_path, "wb")
OpenFinal ==
    /\ pc = "open"
    /\ final_file' = [exists |-> TRUE, bytes |-> <<>>]
    /\ merge_idx' = 0
    /\ pc' = "merge"
    /\ UNCHANGED <<late_result, job, video, chunk_size, max_workers, retries,
                   accept_ranges, head_resp, total_size, chunks,
                   futures, work_queue, submitted, yielded, accepted, temp_exists,
                   temp_dir, pbar, exc, raised, get_calls, history, out_of_order>>

\* line 146: open(output_path, "wb") raises
OpenFinalFault ==
    /\ pc = "open"
    /\ raised' = Append(raised, OSError)
    /\ pc' = "failed"
    /\ UNCHANGED <<late_result, job, video, chunk_size, max_workers, retries,
                   accept_ranges, head_resp, total_size, chunks,
                   futures, work_queue, submitted, yielded, accepted, temp_exists,
                   temp_dir, pbar, final_file, merge_idx, exc, get_calls, history,
                   out_of_order>>

\* the merge loop reading the chunk files in descending index order
MergeName_reversed(idx) == ChunkPath(Len(chunks) - 1 - idx)

\* line 148: the chunk file iteration idx of the merge loop reads
MergeName(idx) == ChunkPath(idx)

\* lines 147-151: one iteration of the merge loop
MergeStep ==
    /\ pc = "merge"
    /\ merge_idx < Len(chunks)
    /\ IF MergeName(merge_idx) \in DOMAIN temp_dir
       THEN /\ final_file' = [final_file EXCEPT
                                 !.bytes = @ \o temp_dir[MergeName(merge_idx)]]
            /\ temp_dir' = RemoveFile(temp_dir, MergeName(merge_idx))
            /\ merge_idx' = merge_idx + 1
            /\ pc' = IF merge_idx + 1 = Len(chunks) THEN "rmdir" ELSE "merge"
            /\ raised' = raised
       ELSE /\ raised' = Append(raised, OSError)
            /\ pc' = "failed"
            /\ UNCHANGED <<final_file, temp_dir, merge_idx>>
    /\ UNCHANGED <<late_result, job, video, chunk_size, max_workers, retries,
                   accept_ranges, head_resp, total_size, chunks,
                   futures, work_queue, submitted, yielded, accepted, temp_exists,
                   pbar, exc, get_calls, history, out_of_order>>

\* line 150: final_file.write raises after p bytes of the chunk were written
MergeFault ==
    /\ pc = "merge"
    /\ merge_idx < Len(chunks)
    /\ MergeName(merge_idx) \in DOMAIN temp_dir
    /\ \E p \in 0..(Len(temp_dir[MergeName(merge_idx)]) - 1) :
        final_file' = [final_file EXCEPT
                          !.bytes = @ \o SubSeq(temp_dir[MergeName(merge_idx)], 1, p)]
    /\ raised' = Append(raised, OSError)
    /\ pc' = "failed"
    /\ UNCHANGED <<late_result, job, video, chunk_size, max_workers, retries,
                   accept_ranges, head_resp, total_size, chunks,
                   futures, work_queue, submitted, yielded, accepted, temp_exists,
                   temp_dir, pbar, merge_idx, exc, get_calls, history, out_of_order>>

\* lines 152-153: os.rmdir(temp_dir), return True
Rmdir ==
    /\ pc = "rmdir"
    /\ IF DOMAIN temp_dir = {}
       THEN temp_exists' = FALSE /\ pc' = "done" /\ raised' = raised
       ELSE temp_exists' = temp_exists /\ pc' = "failed"
            /\ raised' = Append(raised, OSError)
    /\ UNCHANGED <<late_result, job, video, chunk_size, max_workers, retries,
                   accept_ranges, head_resp, total_size, chunks,
                   futures, work_queue, submitted, yielded, accepted, temp_dir, pbar,
                   final_file, merge_idx, exc, get_calls, history, out_of_order>>

Next ==
    \/ Probe
    \/ Plan
    \/ Submit
    \/ StartWork
    \/ \E i \in DOMAIN futures : Attempt(i)
    \/ \E i \in DOMAIN futures : AcceptResult(i)
    \/ \E i \in DOMAIN futures : PersistFault(i)
    \/ \E i \in DOMAIN futures : FutureFailed(i)
    \/ Shutdown
    \/ ExecutorExit
    \/ CollectDone
    \/ OpenFinal
    \/ OpenFinalFault
    \/ MergeStep
    \/ MergeFault
    \/ Rmdir

Spec == Init /\ [][Next]_vars

\* main, lines 230-239: video_downloader.download("temp_video.mp4") has
\* returned; a new ChunkDownloader downloads the audio to "temp_audio.mp4",
\* with its own output file and temporary directory
AudioDownload ==
    /\ job = "video"
    /\ pc = "done"
    /\ job' = "audio"
    /\ video' = [result |-> "returned", running |-> Cardinality(Running)]
    /\ head_resp' = NoResponse
    /\ total_size' = 0
    /\ chunks' = <<>>
    /\ futures' = <<>>
    /\ work_queue' = <<>>
    /\ submitted' = 0
    /\ yielded' = {}
    /\ accepted' = {}
    /\ temp_exists' = FALSE
    /\ temp_dir' = <<>>
    /\ pbar' = 0
    /\ final_file' = [exists |-> FALSE, bytes |-> <<>>]
    /\ merge_idx' = 0
    /\ exc' = NoExc
    /\ raised' = <<>>
    /\ pc' = "probe"
    /\ get_calls' = 0
    /\ history' = <<>>
    /\ out_of_order' = FALSE
    /\ late_result' = {}
    /\ UNCHANGED <<chunk_size, max_workers, retries, accept_ranges>>

\* main, lines 223-254: the video download, then the audio download
NextMain ==
    \/ Next
    \/ AudioDownload

SpecMain == Init /\ [][NextMain]_vars

\* main, lines 188-230 after 253-254: the failure was printed, and the next
\* pass of the loop downloads a video to "temp_video.mp4" again; the output
\* file and the temporary directory are those the failed download left
\* (modelled for one further download)
RetryDownload ==
    /\ job = "video"
    /\ video = NoVideo
    /\ pc = "failed"
    /\ video' = [result |-> "raised", running |-> Cardinality(Running)]
    /\ head_resp' = NoResponse
    /\ total_size' = 0
    /\ chunks' = <<>>
    /\ futures' = <<>>
    /\ work_queue' = <<>>
    /\ submitted' = 0
    /\ yielded' = {}
    /\ accepted' = {}
    /\ pbar' = 0
    /\ merge_idx' = 0
    /\ exc' = NoExc
    /\ raised' = <<>>
    /\ pc' = "probe"
    /\ get_calls' = 0
    /\ history' = <<>>
    /\ out_of_order' = FALSE
    /\ late_result' = {}
    /\ UNCHANGED <<job, chunk_size, max_workers, retries, accept_ranges,
                   temp_exists, temp_dir, final_file>>

\* downloads whose storage operations do not fail, and one further download
\* after a failed one
NextRetry ==
    \/ Probe
    \/ Plan
    \/ Submit
    \/ StartWork
    \/ \E i \in DOMAIN futures : Attempt(i)
    \/ \E i \in DOMAIN futures : AcceptResult(i)
    \/ \E i \in DOMAIN futures : FutureFailed(i)
    \/ Shutdown
    \/ ExecutorExit
    \/ CollectDone
    \/ OpenFinal
    \/ MergeStep
    \/ Rmdir
    \/ RetryDownload

SpecRetry == Init /\ [][NextRetry]_vars

\* the coordinator and the pool threads are operating-system threads: while
\* some thread can take a step, one of them eventually does
SpecFair == Spec /\ WF_vars(Next)

\* ------------------------------------------------------------------ properties
RECURSIVE Payloads(_)
\* the payloads returned for the chunks 0..n-1, concatenated in index order
Payloads(n) == IF n = 0 THEN <<>> ELSE Payloads(n - 1) \o futures[n - 1].data

RECURSIVE SumLen(_, _)
\* the total length of the sequences f[i], i in S
SumLen(f, S) == IF S = {} THEN 0
                ELSE LET i == CHOOSE x \in S : TRUE
                     IN  Len(f[i]) + SumLen(f, S \ {i})

AllBad(h) == \A k \in 1..Len(h) : h[k].outcome = "bad"

\* chunk i failed exactly retries times and then succeeded
LastChance(i) ==
    /\ Len(history[i]) = retries + 1
    /\ AllBad(SubSeq(history[i], 1, retries))
    /\ history[i][retries + 1].outcome = "ok"

\* chunk i failed on all retries + 1 attempts
Exhausted(i) == Len(history[i]) = retries + 1 /\ AllBad(history[i])

Span(r) == r[2] - r[1] + 1

\* C1: when download returns, the output file holds the chunk payloads
\* concatenated in ascending chunk index order, whatever order the chunk
\* fetches completed and were written in.
C1_OrderedReassembly ==
    pc = "done" =>
        /\ final_file.exists
        /\ final_file.bytes = Payloads(Len(chunks))

C1_Witness ==
    /\ pc = "done"
    /\ out_of_order
    /\ accept_ranges
    /\ Len(chunks) >= 3

\* C2: for total_size > 0 the planned ranges start at 0, are contiguous,
\* non-empty, within the resource, pairwise disjoint, end at total_size - 1
\* and cover exactly [0, total_size).
C2_RangesPartition ==
    (total_size > 0 /\ pc \notin {"probe", "plan"}) =>
        /\ chunks # <<>>
        /\ chunks[1][1] = 0
        /\ \A k \in 2..Len(chunks) : chunks[k][1] = chunks[k - 1][2] + 1
        /\ \A k \in 1..Len(chunks) :
              /\ chunks[k][1] <= chunks[k][2]
              /\ 0 <= chunks[k][1]
              /\ chunks[k][2] <= total_size - 1
        /\ \A j, k \in 1..Len(chunks) :
              j # k => (chunks[j][1]..chunks[j][2]) \cap (chunks[k][1]..chunks[k][2]) = {}
        /\ chunks[Len(chunks)][2] = total_size - 1
        /\ UNION {chunks[k][1]..chunks[k][2] : k \in 1..Len(chunks)} = 0..(total_size - 1)

C2_Witness ==
    /\ Len(chunks) = 3
    /\ chunk_size = 1
    /\ pc = "submit"

\* C3: for total_size > 0 there are ceil(total_size / chunk_size) ranges, each
\* of chunk_size bytes but the last, which has total_size - chunk_size*(n-1)
\* bytes; total_size <= chunk_size gives the single range 0..total_size-1.
C3_RangeCountAndSpans ==
    (total_size > 0 /\ pc \notin {"probe", "plan"}) =>
        LET n == Len(chunks)
        IN  /\ n = (total_size + chunk_size - 1) \div chunk_size
            /\ \A k \in 1..(n - 1) : Span(chunks[k]) = chunk_size
            /\ Span(chunks[n]) = total_size - chunk_size * (n - 1)
            /\ total_size <= chunk_size => chunks = << <<0, total_size - 1>> >>

C3_Witness ==
    /\ Len(chunks) = 2
    /\ Span(chunks[2]) < chunk_size
    /\ pc = "collect"

\* C4: a chunk that fails exactly retries times and succeeds on the next
\* attempt is a normal success: it is not failed before that last attempt,
\* its future holds the payload and no exception, the payload once accepted is
\* in its chunk file and in the progress count, and download raises no error
\* for it.
C4_LastAttemptAccepted ==
    /\ \A i \in DOMAIN futures :
          (Len(history[i]) <= retries /\ AllBad(history[i])) =>
              futures[i].exception = NoExc
    /\ \A i \in DOMAIN futures :
          LastChance(i) =>
              /\ futures[i].state = "finished"
              /\ futures[i].exception = NoExc
              /\ futures[i].retry = retries
              /\ futures[i].data # <<>>
              /\ (i \in accepted /\ merge_idx <= i) =>
                    /\ ChunkPath(i) \in DOMAIN temp_dir
                    /\ temp_dir[ChunkPath(i)] = futures[i].data
              /\ \A k \in 1..Len(raised) : raised[k].range # Chunk(i)
    /\ pbar = SumLen([i \in accepted |-> futures[i].data], accepted)

C4_Witness ==
    /\ pc = "done"
    /\ retries >= 1
    /\ \E i \in DOMAIN futures : LastChance(i) /\ i \in accepted

\* the coordinator has received a chunk's terminal failure from future.result()
Recognized == pc \in {"except", "exiting", "failed"} /\ exc.kind = "chunk"

\* some pool thread takes a queued chunk and starts its first attempt
Starts(i) == futures[i].state = "pending" /\ futures'[i].state = "running"

\* C5: a chunk that failed on all retries + 1 attempts keeps the job from
\* completing, and once the coordinator has received that failure no chunk
\* that was still queued is started.
C5_NoStartAfterRecognition ==
    [][ /\ (\E i \in DOMAIN futures : Exhausted(i)) =>
              pc' \notin {"open", "merge", "rmdir", "done"}
        /\ Recognized => \A i \in DOMAIN futures : ~Starts(i) ]_vars

\* C6 as stated: every failed job reports exactly one error, which names the
\* byte range of a chunk that exhausted its retries.
C6_EveryFailureNamesRange ==
    pc = "failed" =>
        /\ Len(raised) = 1
        /\ raised[1].kind = "chunk"
        /\ \E i \in DOMAIN futures : Exhausted(i) /\ raised[1].range = Chunk(i)

\* C6, amended: a failed job reports exactly one error, and a job that has not
\* failed none; unless the error is the size probe's, the planner's or a
\* storage error, it is the error of a chunk that exhausted its retries and
\* names that chunk's byte range start-end, so with a single exhausted chunk
\* it names that chunk under every interleaving.
C6_ChunkFailureNamesRange ==
    /\ pc # "failed" => raised = <<>>
    /\ pc = "failed" =>
          /\ Len(raised) = 1
          /\ raised[1].kind \notin {"size", "index", "os"} =>
                \E i \in DOMAIN futures :
                    /\ Exhausted(i)
                    /\ raised[1] = ChunkError(Chunk(i)[1], Chunk(i)[2])
                    /\ raised[1] = futures[i].exception

C6_Witness ==
    /\ pc = "failed"
    /\ Len(chunks) = 2
    /\ raised = <<ChunkError(Chunk(1)[1], Chunk(1)[2])>>
    /\ {i \in DOMAIN futures : Exhausted(i)} = {1}
    /\ accepted = {0}
    /\ Span(Chunk(1)) < chunk_size

\* C7: when the job has ended, the output path holds the complete reassembled
\* payloads or was not written by this job.
C7_NoPartialOutput ==
    pc \in {"done", "failed"} =>
        \/ ~final_file.exists
        \/ final_file.bytes = Payloads(Len(chunks))

\* the probe answers listed as unusable: transport error, a status outside
\* 2xx, no content-length, or a content-length of zero
ProbeUnusable(resp) ==
    \/ resp.error
    \/ resp.status \notin 200..299
    \/ ~resp.has_length
    \/ (PyInt(resp.length).ok /\ PyInt(resp.length).value = 0)

\* C8: after an unusable probe answer download has failed with the size error
\* and nothing was planned, submitted, started or fetched.
C8_NoFetchWithoutSize ==
    (pc # "probe" /\ ProbeUnusable(head_resp)) =>
        /\ pc = "failed"
        /\ raised = <<SizeError>>
        /\ chunks = <<>>
        /\ futures = <<>>
        /\ work_queue = <<>>
        /\ get_calls = 0
        /\ ~temp_exists

C8_Witness ==
    /\ pc = "failed"
    /\ head_resp.status = 403
    /\ head_resp.has_length
    /\ PyInt(head_resp.length).ok
    /\ PyInt(head_resp.length).value > 0

\* C9: the progress counter never decreases and never exceeds total_size.
C9_ProgressBounded ==
    [][ /\ pbar' >= pbar
        /\ total_size' > 0 => pbar' <= total_size' ]_vars

\* C10: at most max_workers chunk fetches are in progress, retries included,
\* and a queued chunk is started only while fewer than max_workers are.
C10_BoundedWorkers ==
    [][ /\ Cardinality(Running') <= max_workers'
        /\ \A i \in DOMAIN futures :
              Starts(i) => /\ Cardinality(Running) < max_workers
                           /\ work_queue # <<>> /\ i = Head(work_queue) ]_vars

C10_Witness ==
    /\ Cardinality(Running) = max_workers
    /\ max_workers = 2
    /\ work_queue # <<>>
    /\ \E i \in Running : futures[i].retry > 0

\* C11: once the coordinator has received a chunk's terminal failure, no step
\* writes a chunk file, counts progress or accepts a chunk, whatever fetches
\* are still in flight and return afterwards.
C11_LateResultsDiscarded ==
    [][exc.kind = "chunk" =>
          temp_dir' = temp_dir /\ pbar' = pbar /\ accepted' = accepted]_vars

\* download has raised a chunk failure; chunk i was fetched after the failure
\* was received, and nothing of it was stored or counted
C11_Witness ==
    /\ pc = "failed" /\ exc.kind = "chunk"
    /\ \E i \in late_result :
        /\ futures[i].state = "finished" /\ futures[i].data # <<>>
        /\ i \notin accepted
        /\ ChunkPath(i) \notin DOMAIN temp_dir
        /\ pbar = SumLen([j \in accepted |-> futures[j].data], accepted)

\* C12: every chunk gets at most retries + 1 fetch attempts, none after one
\* that succeeded; every attempt requests the chunk's planned inclusive range,
\* the one of the first attempt; and the chunk's failure is raised only after
\* exactly retries + 1 attempts that all failed.
C12_AttemptBudgetSameRange ==
    \A i \in DOMAIN history :
        /\ Len(history[i]) <= retries + 1
        /\ \A k \in 1..Len(history[i]) :
              /\ history[i][k].range = Chunk(i)
              /\ history[i][k].range = history[i][1].range
              /\ k < Len(history[i]) => history[i][k].outcome = "bad"
        /\ (i \in DOMAIN futures /\ futures[i].exception # NoExc) => Exhausted(i)

\* a chunk beyond offset 0 was retried, used up its
\* retries + 1 attempts and raised
C12_Witness ==
    /\ retries >= 1
    /\ \E i \in DOMAIN futures :
        /\ i > 0
        /\ futures[i].exception = ChunkError(Chunk(i)[1], Chunk(i)[2])
        /\ Len(history[i]) = retries + 1

\* the output file has been opened for the merge, or is about to be
Concatenating == pc \in {"open", "merge", "rmdir", "done"} \/ final_file.exists

\* C13: the merge into the output file starts only when every planned index
\* was fetched without error and persisted, and each iteration of the merge
\* loop finds the chunk file of its index, holding that chunk's payload.
C13_MergeOnlyWhenComplete ==
    /\ Concatenating =>
          /\ accepted = Indexes
          /\ \A i \in Indexes : /\ futures[i].state = "finished"
                                 /\ futures[i].exception = NoExc
                                 /\ history[i] # <<>>
                                 /\ history[i][Len(history[i])].outcome = "ok"
    /\ pc \in {"open", "merge"} =>
          \A i \in Indexes :
              (pc = "open" \/ i >= merge_idx) =>
                  /\ MergeName(i) \in DOMAIN temp_dir
                  /\ temp_dir[MergeName(i)] = futures[i].data

\* the merge is at its second iteration in a job of two or more chunks, one of
\* which was retried and persisted before a lower index
C13_Witness ==
    /\ pc = "merge" /\ merge_idx = 1
    /\ Len(chunks) >= 2
    /\ out_of_order
    /\ \E i \in Indexes : Len(history[i]) > 1

\* C14: in a job that started without a temporary directory, the merge has
\* read the chunk files below merge_idx once each, in index order, and removed
\* them; when download has returned, all of them were read and neither a chunk
\* file nor the temporary directory remains.
C14_ConsumedOnceAndRemoved ==
    /\ pc \in {"merge", "rmdir", "done"} =>
          /\ final_file.bytes = Payloads(merge_idx)
          /\ \A i \in Indexes : i < merge_idx => ChunkPath(i) \notin DOMAIN temp_dir
    /\ pc = "done" =>
          /\ merge_idx = Len(chunks)
          /\ DOMAIN temp_dir = {}
          /\ ~temp_exists

\* download has returned from a job of two or more chunks whose directory had
\* been created and filled
C14_Witness ==
    /\ pc = "done"
    /\ Len(chunks) >= 2
    /\ accepted = Indexes
    /\ ~temp_exists
    /\ Len(final_file.bytes) >= 2

\* C15: when download has raised because a chunk used up its retries, the
\* chunk files the job had written and its temporary directory are gone.
C15_FailedJobCleansUp ==
    (pc = "failed" /\ exc.kind = "chunk") =>
        /\ DOMAIN temp_dir = {}
        /\ ~temp_exists

\* the chunks whose payload is referenced by a future of the futures dict
Held == {i \in DOMAIN futures : futures[i].data # <<>>}

\* C16: while chunks are being fetched and persisted, at most max_workers
\* payloads are held in memory, counting those already written to their file
\* that the coordinator still references.
C16_PayloadsBoundedByWorkers ==
    pc \in {"submit", "collect"} => Cardinality(Held) <= max_workers

\* download has returned True or has raised
Terminal == {"done", "failed"}

C18_StrictlySequential ==
    /\ job = "audio" => video = [result |-> "returned", running |-> 0]
    /\ job = "video" => video = NoVideo
    /\ pc \in Terminal => Running = {} /\ work_queue = <<>>
    /\ (job = "video" /\ pc = "failed") => ~ENABLED AudioDownload

\* the audio download is fetching two chunks at once, one of them retried
C18_Witness ==
    /\ job = "audio"
    /\ pc = "collect"
    /\ Cardinality(Running) = 2
    /\ \E i \in Running : futures[i].retry > 0

\* C19: when download has returned, the output file holds exactly total_size
\* bytes, those of the resource from offset 0, whether the server answered the
\* chunk requests with 206 and the range or with 200 and a body.
C19_ByteExactOutput ==
    pc = "done" =>
        /\ Len(final_file.bytes) = total_size
        /\ final_file.bytes = ResourceBytes(0, total_size - 1)

\* the size probe gave a usable size and every GET of the job was accepted
AllFetchesSucceed ==
    /\ total_size > 0
    /\ chunks # <<>>
    /\ \A i \in DOMAIN history :
          \A k \in 1..Len(history[i]) : history[i][k].outcome = "ok"

\* C20: a download to the output path of an earlier download that failed and
\* left chunk files, all of whose own fetches succeed, does not raise, and when
\* it has returned the output is made of its own payloads only.
C20_NewJobSucceeds ==
    (video.result = "raised" /\ DOMAIN temp_dir # {} /\ AllFetchesSucceed) =>
        /\ pc # "failed"
        /\ pc = "done" => final_file.bytes = Payloads(Len(chunks))

====
